---- MODULE Spec2Model ----
(***************************************************************************)
(* The SQL command layer of noiddea-dash (src-tauri/src/db.rs, auth.rs):   *)
(* the lazily opened single connection behind a mutex, the four            *)
(* data-access commands, the file-system probes and the value bridge.      *)
(*                                                                         *)
(* Spec       the commands run by concurrent callers against one           *)
(*            connection; FairSpec is Spec with weak fairness on every     *)
(*            caller's steps inside a command.                             *)
(* ValueSpec  json_to_params applied to bounded JSON values, the value     *)
(*            stored and read back through row_to_json.                    *)
(* RowSpec    row_to_json applied to bounded rows and column names.        *)
(***************************************************************************)
EXTENDS Integers, Sequences, FiniteSets, TLC

\* ------------------------------------------------------------------ bounds
\* Commands issued over a run (all callers together).
MaxCalls == 2
\* Longest statement list handed to db_transaction.
MaxTxLen == 3
\* Longest statement list handed to db_transaction under FairSpec: a caller
\* takes and gives back the mutex the same way whatever the list's length.
MaxFairTxLen == 1
\* Longest script handed to db_exec (statements separated by ';').
MaxScriptLen == 2
\* Row identities 1..MaxKey of the one table the statements address.
MaxKey == 2
\* Width of the machine integers of the value bridge. The code's are 64 bits
\* wide (i64, u64); the width is scaled down so that every value is enumerated.
IntBits == 6

\* The callers: tasks of the asynchronous pool running commands concurrently.
Procs == {"p1", "p2"}
Keys == 1..MaxKey

\* Option<T>: None is the empty sequence, Some(x) the one-element sequence.
None == <<>>
Some(x) == <<x>>
IsSome(o) == Len(o) = 1

\* ------------------------------------------------------------ SQL texts
\* A statement of the input alphabet: op names the SQL text, key the row it
\* addresses (0 when it addresses none). "nosql" is a query object without a
\* string 'sql' field; it is not a text. "unbound" is a SELECT with one
\* placeholder called with an empty parameter list.
Stmt(op, key) == [op |-> op, key |-> key]
Ins(k) == Stmt("ins", k)

\* The text of each statement as a sequence of characters, cut after what the
\* code inspects lexically (the leading blanks and the first keyword).
SqlText(s) ==
    CASE s.op = "ins"    -> <<"I", "N", "S", "E", "R", "T", " ", "I", "N", "T", "O">>
      [] s.op = "sel"    -> <<" ", " ", "s", "e", "l", "e", "c", "t", " ", "*">>
      [] s.op = "selbad" -> <<"S", "e", "l", "e", "c", "t", " ", "x">>
      [] s.op = "cte"    -> <<"W", "I", "T", "H", " ", "c", " ", "A", "S">>
      [] s.op = "bad"    -> <<"S", "E", "L", "E", "C", " ", "1">>
      [] s.op = "commit" -> <<"C", "O", "M", "M", "I", "T">>
      [] s.op = "begin"  -> <<"B", "E", "G", "I", "N">>
      [] s.op = "unbound" -> <<"S", "E", "L", "E", "C", "T", " ", "?">>
      [] OTHER           -> <<>>

IsWhitespace(c) == c \in {" ", "\t", "\n", "\r"}

\* str::trim_start
RECURSIVE TrimStart(_)
TrimStart(t) ==
    IF t # <<>> /\ IsWhitespace(Head(t)) THEN TrimStart(Tail(t)) ELSE t

UpperChar(c) ==
    CASE c = "a" -> "A" [] c = "c" -> "C" [] c = "e" -> "E" [] c = "l" -> "L"
      [] c = "s" -> "S" [] c = "t" -> "T" [] c = "w" -> "W" [] c = "x" -> "X"
      [] OTHER -> c

\* str::to_uppercase
ToUppercase(t) == [i \in 1..Len(t) |-> UpperChar(t[i])]

\* str::starts_with
StartsWith(t, prefix) ==
    /\ Len(t) >= Len(prefix)
    /\ \A i \in 1..Len(prefix) : t[i] = prefix[i]

SelectWord == <<"S", "E", "L", "E", "C", "T">>

\* The mutant of IsSelectSql: the prefix test without trimming or upper-casing.
IsSelectSqlCaseSensitive(t) == StartsWith(t, SelectWord)

\* db_transaction's lexical test for a read statement.
IsSelectSql(t) == StartsWith(ToUppercase(TrimStart(t)), SelectWord)

\* ------------------------------------------------- the SQLite connection
\* What the code's calls into rusqlite do, as far as the commands observe it.
\* An engine state: db, the identities of the rows of the table as the
\* connection sees them; tx, whether a transaction is open (the connection is
\* not in autocommit mode); snap, the rows to restore when that transaction
\* rolls back; rowid, last_insert_rowid(); chg, changes().
NewEngine == [db |-> {}, tx |-> FALSE, snap |-> {}, rowid |-> 0, chg |-> 0]

RECURSIVE SortedSeq(_)
SortedSeq(S) ==
    IF S = {} THEN <<>>
    ELSE LET m == CHOOSE x \in S : \A y \in S : x <= y
         IN <<m>> \o SortedSeq(S \ {m})

\* Connection::prepare / Transaction::prepare: the malformed text is refused.
PrepareOk(s) == s.op # "bad"

\* Binding params_from_iter(..) to the prepared statement: refused when the
\* number of parameters is not the number of placeholders.
BindOk(s) == s.op # "unbound"

\* The mutant of RawRows: a read inside a transaction sees the table as it was
\* when the transaction began.
RawRowsCommitted(E, s) ==
    LET seen == IF E.tx THEN E.snap ELSE E.db
        table == [i \in 1..Cardinality(seen) |->
                     [id |-> SortedSeq(seen)[i], valid |-> TRUE]]
    IN CASE s.op \in {"sel", "cte"} -> table
         [] s.op = "selbad" -> Append(table, [id |-> 0, valid |-> FALSE])
         [] OTHER -> <<>>

\* The rows a statement yields when stepped: the table's rows in rowid order;
\* "selbad" yields one more row whose text column is not valid UTF-8, which
\* Row::get cannot decode into a rusqlite Value.
RawRows(E, s) ==
    LET table == [i \in 1..Cardinality(E.db) |->
                     [id |-> SortedSeq(E.db)[i], valid |-> TRUE]]
    IN CASE s.op \in {"sel", "cte"} -> table
         [] s.op = "selbad" -> Append(table, [id |-> 0, valid |-> FALSE])
         [] OTHER -> <<>>

\* The effect of stepping a statement to completion: [ok, eng].
StepEffect(E, s) ==
    CASE s.op = "ins" ->
           IF s.key \in E.db
           THEN [ok |-> FALSE, eng |-> E]   \* PRIMARY KEY constraint failed
           ELSE [ok |-> TRUE,
                 eng |-> [E EXCEPT !.db = @ \cup {s.key}, !.rowid = s.key, !.chg = 1]]
      [] s.op = "begin" ->
           IF E.tx
           THEN [ok |-> FALSE, eng |-> E]   \* cannot start a transaction within a transaction
           ELSE [ok |-> TRUE, eng |-> [E EXCEPT !.tx = TRUE, !.snap = E.db]]
      [] s.op = "commit" ->
           IF ~E.tx
           THEN [ok |-> FALSE, eng |-> E]   \* cannot commit - no transaction is active
           ELSE [ok |-> TRUE, eng |-> [E EXCEPT !.tx = FALSE, !.snap = {}]]
      [] OTHER -> [ok |-> TRUE, eng |-> E]

\* ROLLBACK of the open transaction.
Rollback(E) == [E EXCEPT !.db = E.snap, !.tx = FALSE, !.snap = {}]

\* The mutant of TxDrop: a guard that leaves the transaction as it is.
TxDropNothing(E) == E

\* Drop of a rusqlite Transaction (DropBehavior::Rollback): nothing when the
\* connection is back in autocommit mode, a rollback otherwise.
TxDrop(E) == IF E.tx THEN Rollback(E) ELSE E

\* row_to_json as the commands use it: the row object, or the decode error of
\* row.get(idx)?.
RowToJson(row) ==
    IF row.valid THEN [ok |-> TRUE, val |-> [id |-> row.id]]
    ELSE [ok |-> FALSE, val |-> [id |-> 0]]

\* The mutant of CollectRows: the rows decoded before the first failure are
\* returned as the result.
CollectRowsPartial(raw, acc) ==
    [ok |-> TRUE,
     rows |-> acc \o [i \in 1..Cardinality({k \in 1..Len(raw) :
                                               \A j \in 1..k : raw[j].valid})
                        |-> RowToJson(raw[i]).val]]

\* The loop `for row in rows { results.push(row.map_err(..)?) }`: every row
\* decoded in order, or the first decode error and nothing else.
RECURSIVE CollectRows(_, _)
CollectRows(raw, acc) ==
    IF raw = <<>> THEN [ok |-> TRUE, rows |-> acc]
    ELSE LET j == RowToJson(Head(raw))
         IN IF j.ok THEN CollectRows(Tail(raw), Append(acc, j.val))
            ELSE [ok |-> FALSE, rows |-> <<>>]

\* stmt.query_map(..) followed by the collecting loop: [err, rows, eng].
\* err is "" on success, else the prefix of the message the code formats.
\* query_map only binds; the statement is stepped by the loop, where a failing
\* step and an undecodable row both surface as the row's error.
RunQuery(E, s) ==
    LET eff == StepEffect(E, s)
        got == CollectRows(RawRows(E, s), <<>>)
    IN IF ~BindOk(s) THEN [err |-> "SQL query error", rows |-> <<>>, eng |-> E]
       ELSE IF ~eff.ok THEN [err |-> "Row parsing error", rows |-> <<>>, eng |-> E]
       ELSE IF ~got.ok THEN [err |-> "Row parsing error", rows |-> <<>>, eng |-> eff.eng]
       ELSE [err |-> "", rows |-> got.rows, eng |-> eff.eng]

\* stmt.execute(..): the statement stepped once; a statement that yields a row
\* is refused (ExecuteReturnedResults). [err, changes, eng]. The count it
\* returns is the connection's changes() after the step: the rows of the latest
\* INSERT, UPDATE or DELETE completed on the connection.
RunExecute(E, s) ==
    LET eff == StepEffect(E, s)
    IN IF ~BindOk(s) \/ RawRows(E, s) # <<>> \/ ~eff.ok
       THEN [err |-> "SQL execute error", changes |-> 0, eng |-> E]
       ELSE [err |-> "", changes |-> eff.eng.chg, eng |-> eff.eng]

\* -------------------------------------------------------- command inputs
\* RECURSIVE set of the sequences over S of length at most n.
RECURSIVE SeqsUpTo(_, _)
SeqsUpTo(S, n) ==
    IF n = 0 THEN {<<>>}
    ELSE LET shorter == SeqsUpTo(S, n - 1)
         IN shorter \cup {Append(q, x) : q \in {r \in shorter : Len(r) = n - 1}, x \in S}

Plain(op) == Stmt(op, 0)

\* db_query(sql, params): one text.
QueryInputs == {<<Plain(op)>> : op \in {"sel", "selbad", "cte", "bad", "unbound"}}
\* db_execute(sql, params): one text; BEGIN stands for the statements that
\* insert, update and delete nothing.
ExecuteInputs == {<<Ins(k)>> : k \in Keys} \cup {<<Plain("bad")>>, <<Plain("begin")>>}
\* db_exec(sql): a script.
ScriptStmts == {Ins(1), Plain("bad"), Plain("begin"), Plain("commit")}
ExecInputs == SeqsUpTo(ScriptStmts, MaxScriptLen) \ {<<>>}
\* db_transaction(queries): a list of query objects.
TxStmts == {Ins(1), Plain("sel"), Plain("selbad"), Plain("cte"),
            Plain("bad"), Plain("nosql"), Plain("commit")}
TxInputs == SeqsUpTo(TxStmts, MaxTxLen)

DbCmds == {"db_query", "db_execute", "db_exec", "db_transaction"}
\* The commands that do not touch the connection.
ProbeCmds == {"db_get_path", "db_exists", "auth_hash_password",
              "auth_verify_password", "auth_generate_token"}

\* The inputs of command k, with transaction lists of at most n members.
InputsUpTo(k, n) ==
    CASE k = "db_query" -> QueryInputs
      [] k = "db_execute" -> ExecuteInputs
      [] k = "db_exec" -> ExecInputs
      [] OTHER -> {a \in TxInputs : Len(a) <= n}

\* ------------------------------------------------------ what a command returns
\* The mutant of DatabaseResultSuccess: the data left out.
DatabaseResultNoData(data) == [success |-> TRUE, data |-> None, error |-> None]
\* DatabaseResult::success (db.rs, auth.rs).
DatabaseResultSuccess(data) == [success |-> TRUE, data |-> Some(data), error |-> None]
\* DatabaseResult::error (auth.rs; dead code in db.rs).
DatabaseResultError(error) == [success |-> FALSE, data |-> None, error |-> Some(error)]

\* The unit value ().
Unit == <<>>
\* serde_json::Value::Null and ::Array in a transaction's result sequence.
JNull == [t |-> "null", a |-> <<>>]
JArray(a) == [t |-> "array", a |-> a]

\* A command's return value, a Rust Result: tag "Ok" with the value in val, tag
\* "Err" with the message in msg, tag "none" while nothing has been returned.
NoRet == [tag |-> "none", cmd |-> "", val |-> None, msg |-> ""]
RetOk(cmd, v) == [tag |-> "Ok", cmd |-> cmd, val |-> Some(v), msg |-> ""]
RetErr(cmd, msg) == [tag |-> "Err", cmd |-> cmd, val |-> None, msg |-> msg]

\* ------------------------------------------------------------ file system
AppDataDir == "app_data_dir"
Join(dir, name) == <<dir, name>>
\* get_connection: app_data_dir.join("database.db")
DbFilePath == Join(AppDataDir, "database.db")
\* The mutant of DbGetPathValue: another file name.
DbGetPathOther == Join(AppDataDir, "database.sqlite")
\* db_get_path: app_data_dir.join("database.db")
DbGetPathValue == Join(AppDataDir, "database.db")

\* ------------------------------------------------------------------ state
VARIABLES
    conn,     \* DatabaseState.conn: 0 is None, k > 0 the k-th connection stored
    lock,     \* owner of the mutex around conn: "free" or a caller
    files,    \* paths that exist in the file system
    eng,      \* engine state of the stored connection
    pc,       \* each caller's position
    kind,     \* each caller's command, "" outside a command
    args,     \* the statements the command was called with
    todo,     \* db_transaction: the members not yet iterated
    results,  \* db_transaction: the results vector
    before,   \* the table as it was when the command took the lock
    ret,      \* what each caller's last command returned
    calls,    \* commands issued so far
    opened,   \* Connection::open has succeeded at some time
    openEnv,  \* what the environment answered to the latest opening sequence
    jv,       \* ValueSpec: the JSON value handed to json_to_params
    param,    \* ValueSpec: the native parameter it became
    cell,     \* ValueSpec: the value the engine holds once param is bound
    back,     \* ValueSpec: the JSON value row_to_json reads from cell
    cols,     \* RowSpec: the column names of the statement
    rowv,     \* RowSpec: the native values of one row, by column index
    obj,      \* RowSpec: what row_to_json returned for the row
    vpc       \* ValueSpec, RowSpec: position

cmdVars == <<conn, lock, files, eng, pc, kind, args, todo, results, before, ret,
             calls, opened, openEnv>>
valueVars == <<jv, param, cell, back, cols, rowv, obj, vpc>>
vars == <<conn, lock, files, eng, pc, kind, args, todo, results, before, ret,
          calls, opened, openEnv, jv, param, cell, back, cols, rowv, obj, vpc>>

\* The value bridge at rest: the commands of Spec bind no parameters.
ValueIdle ==
    /\ jv = [t |-> "null", n |-> "", v |-> 0, s |-> <<>>, c |-> <<>>]
    /\ param = [t |-> "unbound", v |-> 0, s |-> <<>>]
    /\ cell = [t |-> "null", v |-> 0, s |-> <<>>]
    /\ back = [t |-> "null", n |-> "", v |-> 0, s |-> <<>>, c |-> <<>>]
    /\ cols = <<>>
    /\ rowv = <<>>
    /\ obj = [ok |-> FALSE, map |-> <<>>]
    /\ vpc = "off"

\* No opening sequence has run yet.
NoOpenEnv == [by |-> "", f |-> "", jm |-> ""]

\* DatabaseState::new() in a fresh installation: no connection, no file.
InitCmd ==
    /\ conn = 0
    /\ lock = "free"
    /\ files = {}
    /\ eng = NewEngine
    /\ pc = [p \in Procs |-> "idle"]
    /\ kind = [p \in Procs |-> ""]
    /\ args = [p \in Procs |-> <<>>]
    /\ todo = [p \in Procs |-> <<>>]
    /\ results = [p \in Procs |-> <<>>]
    /\ before = [p \in Procs |-> {}]
    /\ ret = [p \in Procs |-> NoRet]
    /\ calls = 0
    /\ opened = FALSE
    /\ openEnv = NoOpenEnv

Init == InitCmd /\ ValueIdle

\* ------------------------------------------------------------- the mutex
\* The mutant of MutexFree: a lock that admits everyone.
MutexAlwaysFree(l) == TRUE
\* Mutex::lock returns when nobody holds the mutex.
MutexFree(l) == l = "free"

\* The mutant of GcDropGuard: get_connection returns with the guard alive.
GcKeepGuard(p) == p
\* The guard conn_opt goes out of scope when get_connection returns.
GcDropGuard(p) == "free"
\* The command's guard goes out of scope when the command returns.
CmdDropGuard(p) == "free"

\* The mutant of IsNone: the connection is taken to be missing every time.
IsNoneAlways(c) == TRUE
\* Option::is_none on the stored connection.
IsNone(c) == c = 0

\* ------------------------------------------------- DatabaseState::get_connection
\* What the environment may answer to one run of the opening sequence: f, the
\* first step that fails ("none": no step fails), and jm, the journal mode the
\* engine reports for the WAL pragma ("": the pragma's query did not run or
\* failed). Steps after a refused journal mode are never reached.
OpenEnvs ==
    {[f |-> f, jm |-> ""] : f \in {"resolve", "mkdir", "open", "walq"}}
    \cup {[f |-> "none", jm |-> "delete"]}
    \cup {[f |-> f, jm |-> jm] : f \in {"fk", "cache", "none"}, jm \in {"wal", "WAL"}}

\* The mutant of ToLowercaseMode: the reported mode compared as it is.
JournalModeAsReported(m) == m
\* String::to_lowercase on the reported journal mode.
ToLowercaseMode(m) == IF m = "WAL" THEN "wal" ELSE m

\* The opening sequence of get_connection under the answers e: err is "" when
\* it reaches the store, else the prefix of the message returned; created says
\* whether Connection::open made the file.
OpenSequence(e) ==
    CASE e.f = "resolve" -> [err |-> "Could not get app data directory", created |-> FALSE]
      [] e.f = "mkdir" -> [err |-> "Could not create app data directory", created |-> FALSE]
      [] e.f = "open" -> [err |-> "Could not open database", created |-> FALSE]
      [] e.f = "walq" -> [err |-> "Could not set WAL mode", created |-> TRUE]
      [] OTHER ->
           IF ToLowercaseMode(e.jm) # "wal"
           THEN [err |-> "Failed to set WAL mode, got", created |-> TRUE]
           ELSE IF e.f = "fk"
           THEN [err |-> "Could not enable foreign keys", created |-> TRUE]
           ELSE [err |-> "", created |-> TRUE]   \* e.f = "cache" is ignored

\* The mutant of StoreConn: the opening sequence stores nothing.
StoreConnNever(c, out) == c
\* The mutant of StoreConn: the connection is stored as soon as it is open,
\* before the pragmas have been checked.
StoreConnOnOpen(c, out) == IF out.created THEN c + 1 ELSE c
\* `*conn_opt = Some(conn)`, reached only when no step returned early.
StoreConn(c, out) == IF out.err = "" THEN c + 1 ELSE c

\* A connection just opened on the file: the committed rows, autocommit mode.
OpenEngine(E) ==
    [db |-> IF E.tx THEN E.snap ELSE E.db, tx |-> FALSE, snap |-> {},
     rowid |-> 0, chg |-> 0]

\* The record of the latest opening sequence is kept until the caller that ran
\* it moves on.
ForgetOpenEnv(p) == IF openEnv.by = p THEN NoOpenEnv ELSE openEnv

\* The UI invokes command k on caller p. A data-access command's first
\* statement is get_connection.
Call(p, k) ==
    /\ pc[p] = "idle"
    /\ calls < MaxCalls
    /\ calls' = calls + 1
    /\ pc' = [pc EXCEPT ![p] = IF k \in DbCmds THEN "gc_lock" ELSE "probe"]
    /\ kind' = [kind EXCEPT ![p] = k]
    /\ ret' = [ret EXCEPT ![p] = NoRet]
    /\ openEnv' = ForgetOpenEnv(p)
    /\ UNCHANGED <<conn, lock, files, eng, args, todo, results, before, opened>>
    /\ UNCHANGED valueVars

\* self.conn.lock().unwrap()
GcLock(p) ==
    /\ pc[p] = "gc_lock"
    /\ MutexFree(lock)
    /\ lock' = p
    /\ pc' = [pc EXCEPT ![p] = "gc_check"]
    /\ UNCHANGED <<conn, files, eng, kind, args, todo, results, before, ret, calls, opened,
                   openEnv>>
    /\ UNCHANGED valueVars

\* if conn_opt.is_none() { .. } ; otherwise Ok(Arc::clone(&self.conn))
GcCheck(p) ==
    /\ pc[p] = "gc_check"
    /\ IF IsNone(conn)
       THEN /\ pc' = [pc EXCEPT ![p] = "gc_init"]
            /\ lock' = lock
       ELSE /\ pc' = [pc EXCEPT ![p] = "cmd_lock"]
            /\ lock' = GcDropGuard(p)
    /\ UNCHANGED <<conn, files, eng, kind, args, todo, results, before, ret, calls, opened,
                   openEnv>>
    /\ UNCHANGED valueVars

\* The body of the if: resolve, create the directory, open, the three pragmas,
\* store. A failing step returns Err through `?` with nothing stored.
GcInit(p) ==
    /\ pc[p] = "gc_init"
    /\ \E e \in OpenEnvs :
         LET out == OpenSequence(e)
             c == StoreConn(conn, out)
         IN /\ conn' = c
            /\ files' = IF out.created THEN files \cup {DbFilePath} ELSE files
            /\ opened' = (opened \/ out.created)
            /\ openEnv' = [by |-> p, f |-> e.f, jm |-> e.jm]
            /\ eng' = IF c # conn THEN OpenEngine(eng) ELSE eng
            /\ IF out.err = ""
               THEN /\ pc' = [pc EXCEPT ![p] = "cmd_lock"]
                    /\ UNCHANGED <<kind, ret>>
               ELSE /\ pc' = [pc EXCEPT ![p] = "idle"]
                    /\ kind' = [kind EXCEPT ![p] = ""]
                    /\ ret' = [ret EXCEPT ![p] = RetErr(kind[p], out.err)]
    /\ lock' = GcDropGuard(p)
    /\ UNCHANGED <<args, todo, results, before, calls>>
    /\ UNCHANGED valueVars

\* ------------------------------------------------------------ the commands
\* conn_arc.lock().unwrap(), then .as_ref().ok_or_else(..)?. The arguments sql,
\* params and queries are first read after this point, so they are drawn here.
CmdLockUpTo(p, n) ==
    /\ pc[p] = "cmd_lock"
    /\ MutexFree(lock)
    /\ IF IsNone(conn)
       THEN /\ lock' = CmdDropGuard(p)
            /\ pc' = [pc EXCEPT ![p] = "idle"]
            /\ kind' = [kind EXCEPT ![p] = ""]
            /\ ret' = [ret EXCEPT ![p] = RetErr(kind[p], "Database connection not initialized")]
            /\ UNCHANGED <<args, todo, before>>
       ELSE /\ lock' = p
            /\ pc' = [pc EXCEPT ![p] = IF kind[p] = "db_transaction" THEN "tx_begin" ELSE "run"]
            /\ \E a \in InputsUpTo(kind[p], n) :
                 /\ args' = [args EXCEPT ![p] = a]
                 /\ todo' = [todo EXCEPT ![p] = a]
            /\ before' = [before EXCEPT ![p] = eng.db]
            /\ UNCHANGED <<kind, ret>>
    /\ openEnv' = ForgetOpenEnv(p)
    /\ UNCHANGED <<conn, files, eng, results, calls, opened>>
    /\ UNCHANGED valueVars

CmdLock(p) == CmdLockUpTo(p, MaxTxLen)
CmdLockShort(p) == CmdLockUpTo(p, MaxFairTxLen)

\* The command returns r with the engine left as E: its locals are dropped and
\* with them the guard of the connection.
Return(p, r, E) ==
    /\ ret' = [ret EXCEPT ![p] = r]
    /\ eng' = E
    /\ lock' = CmdDropGuard(p)
    /\ pc' = [pc EXCEPT ![p] = "idle"]
    /\ kind' = [kind EXCEPT ![p] = ""]
    /\ args' = [args EXCEPT ![p] = <<>>]
    /\ todo' = [todo EXCEPT ![p] = <<>>]
    /\ results' = [results EXCEPT ![p] = <<>>]
    /\ before' = [before EXCEPT ![p] = {}]
    /\ UNCHANGED <<conn, files, calls, opened, openEnv>>
    /\ UNCHANGED valueVars

\* db_query after the lock: prepare, query_map, collect every row.
DbQueryRun(p) ==
    /\ pc[p] = "run" /\ kind[p] = "db_query"
    /\ LET s == args[p][1]
           r == RunQuery(eng, s)
       IN IF ~PrepareOk(s)
          THEN Return(p, RetErr("db_query", "SQL prepare error"), eng)
          ELSE IF r.err # ""
          THEN Return(p, RetErr("db_query", r.err), r.eng)
          ELSE Return(p, RetOk("db_query", DatabaseResultSuccess(r.rows)), r.eng)

\* The mutant of LastInsertRowid: the number of rows of the table.
LastInsertRowidByCount(E) == Cardinality(E.db)
\* conn.last_insert_rowid()
LastInsertRowid(E) == E.rowid

\* db_execute after the lock: prepare, execute, last_insert_rowid.
DbExecuteRun(p) ==
    /\ pc[p] = "run" /\ kind[p] = "db_execute"
    /\ LET s == args[p][1]
           r == RunExecute(eng, s)
       IN IF ~PrepareOk(s)
          THEN Return(p, RetErr("db_execute", "SQL prepare error"), eng)
          ELSE IF r.err # ""
          THEN Return(p, RetErr("db_execute", "SQL execute error"), r.eng)
          ELSE Return(p, RetOk("db_execute", DatabaseResultSuccess(
                          [changes |-> r.changes, lastInsertRowid |-> LastInsertRowid(r.eng)])),
                      r.eng)

\* Connection::execute_batch: the script's statements prepared and stepped one
\* after the other until one fails; what ran before the failure stays done.
RECURSIVE RunBatch(_, _)
RunBatch(E, script) ==
    IF script = <<>> THEN [ok |-> TRUE, eng |-> E]
    ELSE LET s == Head(script)
             eff == StepEffect(E, s)
         IN IF ~PrepareOk(s) \/ ~eff.ok THEN [ok |-> FALSE, eng |-> E]
            ELSE RunBatch(eff.eng, Tail(script))

\* db_exec after the lock.
DbExecRun(p) ==
    /\ pc[p] = "run" /\ kind[p] = "db_exec"
    /\ LET r == RunBatch(eng, args[p])
       IN IF ~r.ok
          THEN Return(p, RetErr("db_exec", "SQL exec error"), r.eng)
          ELSE Return(p, RetOk("db_exec", DatabaseResultSuccess(Unit)), r.eng)

\* db_transaction: conn.transaction(), which issues BEGIN.
TxBegin(p) ==
    /\ pc[p] = "tx_begin"
    /\ LET b == StepEffect(eng, Plain("begin"))
       IN IF ~b.ok
          THEN Return(p, RetErr("db_transaction", "Transaction start error"), eng)
          ELSE /\ eng' = b.eng
               /\ pc' = [pc EXCEPT ![p] = "tx_loop"]
               /\ results' = [results EXCEPT ![p] = <<>>]
               /\ UNCHANGED <<conn, lock, files, kind, args, todo, before, ret,
                              calls, opened, openEnv>>
               /\ UNCHANGED valueVars

\* One member statement leaves the loop with `?`: tx is dropped, then the guard.
TxFail(p, msg, E) == Return(p, RetErr("db_transaction", msg), TxDrop(E))

\* One member statement pushed its slot.
TxPush(p, slot, E) ==
    /\ results' = [results EXCEPT ![p] = Append(@, slot)]
    /\ todo' = [todo EXCEPT ![p] = Tail(@)]
    /\ eng' = E
    /\ UNCHANGED <<conn, lock, files, pc, kind, args, before, ret, calls, opened,
                   openEnv>>
    /\ UNCHANGED valueVars

\* db_transaction: one iteration of `for query_obj in queries`.
TxStmt(p) ==
    /\ pc[p] = "tx_loop"
    /\ todo[p] # <<>>
    /\ LET q == Head(todo[p])
           rq == RunQuery(eng, q)
           rx == RunExecute(eng, q)
       IN IF q.op = "nosql" THEN TxFail(p, "Missing 'sql' in query object", eng)
          ELSE IF ~PrepareOk(q) THEN TxFail(p, "SQL prepare error", eng)
          ELSE IF IsSelectSql(SqlText(q))
          THEN IF rq.err # "" THEN TxFail(p, rq.err, rq.eng)
               ELSE TxPush(p, JArray(rq.rows), rq.eng)
          ELSE IF rx.err # "" THEN TxFail(p, "SQL execute error", rx.eng)
               ELSE TxPush(p, JNull, rx.eng)

\* db_transaction: tx.commit() after the loop. The engine may refuse a COMMIT
\* of an open transaction (a deferred constraint, a full disk): the
\* transaction then stays open and is rolled back when tx is dropped.
TxCommit(p) ==
    /\ pc[p] = "tx_loop"
    /\ todo[p] = <<>>
    /\ \E refused \in BOOLEAN :
         LET c == StepEffect(eng, Plain("commit"))
         IN IF c.ok /\ ~refused
            THEN Return(p, RetOk("db_transaction", DatabaseResultSuccess(results[p])), c.eng)
            ELSE Return(p, RetErr("db_transaction", "Transaction commit error"), TxDrop(eng))

\* ------------------------------------------- probes and the auth commands
\* They take no lock: once invoked, each runs in one step.
Probe(p, k, r) ==
    /\ pc[p] = "probe" /\ kind[p] = k
    /\ pc' = [pc EXCEPT ![p] = "idle"]
    /\ kind' = [kind EXCEPT ![p] = ""]
    /\ ret' = [ret EXCEPT ![p] = r]
    /\ UNCHANGED <<conn, lock, files, eng, args, todo, results, before, calls, opened,
                   openEnv>>
    /\ UNCHANGED valueVars

\* db_get_path: the resolved directory joined with the file name, or the
\* resolution error.
DbGetPath(p) ==
    \E resolved \in BOOLEAN :
        Probe(p, "db_get_path",
              IF resolved THEN RetOk("db_get_path", DbGetPathValue)
              ELSE RetErr("db_get_path", "Could not get app data directory"))

\* db_exists: Path::new(&db_get_path()?).exists()
DbExists(p) ==
    \E resolved \in BOOLEAN :
        Probe(p, "db_exists",
              IF resolved THEN RetOk("db_exists", DbGetPathValue \in files)
              ELSE RetErr("db_exists", "Could not get app data directory"))

\* auth_hash_password: the hash in a success envelope, or bcrypt's error in an
\* error envelope.
AuthHashPassword(p) ==
    \E hashed \in BOOLEAN :
        Probe(p, "auth_hash_password",
              RetOk("auth_hash_password",
                    IF hashed THEN DatabaseResultSuccess([hash |-> "bcrypt"])
                    ELSE DatabaseResultError("Password hashing error")))

\* auth_verify_password: isValid in a success envelope, or bcrypt's error (a
\* malformed hash) in an error envelope.
AuthVerifyPassword(p) ==
    \E outcome \in {"valid", "invalid", "error"} :
        Probe(p, "auth_verify_password",
              RetOk("auth_verify_password",
                    IF outcome = "error"
                    THEN DatabaseResultError("Password verification error")
                    ELSE DatabaseResultSuccess([isValid |-> outcome = "valid"])))

\* auth_generate_token: always a success envelope.
AuthGenerateToken(p) ==
    Probe(p, "auth_generate_token",
          RetOk("auth_generate_token", DatabaseResultSuccess([token |-> "uuid-ts"])))

\* ------------------------------------------------------ the specification
\* The steps of caller p inside a command, apart from taking the command's
\* lock.
BodyStep(p) ==
    \/ GcLock(p)
    \/ GcCheck(p)
    \/ GcInit(p)
    \/ DbQueryRun(p)
    \/ DbExecuteRun(p)
    \/ DbExecRun(p)
    \/ TxBegin(p)
    \/ TxStmt(p)
    \/ TxCommit(p)
    \/ DbGetPath(p)
    \/ DbExists(p)
    \/ AuthHashPassword(p)
    \/ AuthVerifyPassword(p)
    \/ AuthGenerateToken(p)

Invoke(p) == \E k \in DbCmds \cup ProbeCmds : Call(p, k)

Next ==
    \E p \in Procs :
        \/ Invoke(p)
        \/ CmdLock(p)
        \/ BodyStep(p)

Spec == Init /\ [][Next]_vars

\* The steps of caller p inside a command under FairSpec.
FairStep(p) == CmdLockShort(p) \/ BodyStep(p)

FairNext ==
    \E p \in Procs :
        \/ Invoke(p)
        \/ FairStep(p)

\* A caller inside a command keeps running: a worker blocked on the mutex gets
\* it once it stays free, and every other step is always enabled.
FairSpec == Init /\ [][FairNext]_vars /\ \A p \in Procs : WF_vars(FairStep(p))

\* ------------------------------------------------------- the value bridge
RECURSIVE Pow2(_)
Pow2(n) == IF n = 0 THEN 1 ELSE 2 * Pow2(n - 1)

\* i64::MIN, i64::MAX and u64::MAX at the width of the model.
I64Min == -Pow2(IntBits - 1)
I64Max == Pow2(IntBits - 1) - 1
U64Max == Pow2(IntBits) - 1

\* serde_json::Value. A Number is one of serde_json's three representations:
\* PosInt (a u64), NegInt (a negative i64) or Float (an f64, held here as a
\* count of halves: 3 is 1.5, 4 is 2.0). s is the text of a String, c the elements of an
\* Array or the member values of an Object.
VNull == [t |-> "null", n |-> "", v |-> 0, s |-> <<>>, c |-> <<>>]
VBool(b) == [t |-> "bool", n |-> "", v |-> IF b THEN 1 ELSE 0, s |-> <<>>, c |-> <<>>]
VNumber(n, v) == [t |-> "number", n |-> n, v |-> v, s |-> <<>>, c |-> <<>>]
VString(s) == [t |-> "string", n |-> "", v |-> 0, s |-> s, c |-> <<>>]
VArray(c) == [t |-> "array", n |-> "", v |-> 0, s |-> <<>>, c |-> c]
VObject(c) == [t |-> "object", n |-> "", v |-> 0, s |-> <<>>, c |-> c]

FloatHalves == {-3, 1, 4}
SampleStrings == {<<>>, <<"a">>, <<"[", "1", "]">>}

JsonValues ==
    {VNull} \cup {VBool(b) : b \in BOOLEAN}
    \cup {VNumber("PosInt", v) : v \in 0..U64Max}
    \cup {VNumber("NegInt", v) : v \in I64Min..(-1)}
    \cup {VNumber("Float", h) : h \in FloatHalves}
    \cup {VString(s) : s \in SampleStrings}
    \cup {VArray(c) : c \in SeqsUpTo({0, 1}, 2)}
    \cup {VObject(c) : c \in SeqsUpTo({0, 1}, 1)}

\* Number::is_i64, Number::is_u64
IsI64(j) == j.n = "NegInt" \/ (j.n = "PosInt" /\ j.v <= I64Max)
IsU64(j) == j.n = "PosInt"

\* `x as i64` for a u64 x: the same bits read as two's complement.
U64AsI64(x) == IF x > I64Max THEN x - Pow2(IntBits) ELSE x

\* serde_json::to_string of an Array of digits or of an Object whose members
\* are named "k" (at most one member here).
DigitChar(d) == IF d = 0 THEN "0" ELSE "1"
RECURSIVE JoinDigits(_)
JoinDigits(c) ==
    IF c = <<>> THEN <<>>
    ELSE IF Len(c) = 1 THEN <<DigitChar(c[1])>>
    ELSE <<DigitChar(c[1]), ",">> \o JoinDigits(Tail(c))
ToJsonString(j) ==
    IF j.t = "array" THEN <<"[">> \o JoinDigits(j.c) \o <<"]">>
    ELSE IF j.c = <<>> THEN <<"{", "}">>
    ELSE <<"{", "\"", "k", "\"", ":", DigitChar(j.c[1]), "}">>

\* A boxed rusqlite parameter.
PNull == [t |-> "null", v |-> 0, s |-> <<>>]
PBool(v) == [t |-> "bool", v |-> v, s |-> <<>>]
PInteger(v) == [t |-> "integer", v |-> v, s |-> <<>>]
PReal(h) == [t |-> "real", v |-> h, s |-> <<>>]
PText(s) == [t |-> "text", v |-> 0, s |-> s]
Unbound == [t |-> "unbound", v |-> 0, s |-> <<>>]

\* json_to_params on one element of params.
JsonToParam(j) ==
    CASE j.t = "null" -> PNull
      [] j.t = "bool" -> PBool(j.v)
      [] j.t = "number" ->
           IF IsI64(j) THEN PInteger(j.v)
           ELSE IF IsU64(j) THEN PInteger(U64AsI64(j.v))
           ELSE PReal(j.v)
      [] j.t = "string" -> PText(j.s)
      [] OTHER -> PText(ToJsonString(j))

\* json_to_params: every element in order.
JsonToParams(params) == [i \in 1..Len(params) |-> JsonToParam(params[i])]

\* A value as the engine holds and returns it (rusqlite::types::Value): t is
\* "null", "integer", "real" (v in halves), "realinf" (an infinite REAL, which
\* serde_json's Number cannot hold), "text", "blob" (v bytes long) or "badtext"
\* (a TEXT that is not valid UTF-8, which Row::get refuses).
NvNull == [t |-> "null", v |-> 0, s |-> <<>>]
NvInteger(i) == [t |-> "integer", v |-> i, s |-> <<>>]
NvReal(h) == [t |-> "real", v |-> h, s |-> <<>>]
NvRealInf == [t |-> "realinf", v |-> 0, s |-> <<>>]
NvText(s) == [t |-> "text", v |-> 0, s |-> s]
NvBlob(n) == [t |-> "blob", v |-> n, s |-> <<>>]
NvBadText == [t |-> "badtext", v |-> 0, s |-> <<>>]

\* What the engine holds once a boxed parameter is bound (rusqlite's ToSql for
\* Option<String>, bool, i64, f64 and String) and the value is kept in a
\* column without a type affinity: a bool is bound as the integer 0 or 1, the
\* engine having no boolean type.
ToSqlValue(p) ==
    CASE p.t = "null" -> NvNull
      [] p.t = "bool" -> NvInteger(p.v)
      [] p.t = "integer" -> NvInteger(p.v)
      [] p.t = "real" -> NvReal(p.v)
      [] OTHER -> NvText(p.s)

\* The mutant of NumberFromI64: every integer taken for an unsigned one.
NumberFromI64Unsigned(i) == VNumber("PosInt", i)
\* serde_json::Number::from(i64): PosInt when not negative, NegInt otherwise.
NumberFromI64(i) == IF i >= 0 THEN VNumber("PosInt", i) ELSE VNumber("NegInt", i)

\* format!("[BLOB:{} bytes]", b.len())
BlobPlaceholder(n) ==
    <<"[", "B", "L", "O", "B", ":", DigitChar(n), " ", "b", "y", "t", "e", "s", "]">>

\* The mutant of TextToJson: a text that spells an array is turned back into
\* the array.
TextToJsonParsed(s) ==
    IF s # <<>> /\ Head(s) = "[" THEN VArray(<<>>) ELSE VString(s)
\* rusqlite::types::Value::Text(s) => serde_json::Value::String(s)
TextToJson(s) == VString(s)

\* The match of row_to_json on one native value.
NativeToJson(x) ==
    CASE x.t = "null" -> VNull
      [] x.t = "integer" -> NumberFromI64(x.v)
      [] x.t = "real" -> VNumber("Float", x.v)
      [] x.t = "realinf" -> NumberFromI64(0)   \* from_f64 is None: unwrap_or(0.into())
      [] x.t = "text" -> TextToJson(x.s)
      [] OTHER -> VString(BlobPlaceholder(x.v))

\* The row side at rest.
RowIdle ==
    /\ cols = <<>>
    /\ rowv = <<>>
    /\ obj = [ok |-> FALSE, map |-> <<>>]

InitValue ==
    /\ InitCmd
    /\ jv \in JsonValues
    /\ param = Unbound
    /\ cell = NvNull
    /\ back = VNull
    /\ RowIdle
    /\ vpc = "start"

\* The parameter list [jv] goes through json_to_params.
BindParam ==
    /\ vpc = "start"
    /\ param' = JsonToParams(<<jv>>)[1]
    /\ vpc' = "bound"
    /\ UNCHANGED <<jv, cell, back, cols, rowv, obj>>
    /\ UNCHANGED cmdVars

\* The statement runs with the parameter bound and the engine keeps the value.
StoreParam ==
    /\ vpc = "bound"
    /\ cell' = ToSqlValue(param)
    /\ vpc' = "stored"
    /\ UNCHANGED <<jv, param, back, cols, rowv, obj>>
    /\ UNCHANGED cmdVars

\* A later query reads the value back through row_to_json.
ReadBack ==
    /\ vpc = "stored"
    /\ back' = NativeToJson(cell)
    /\ vpc' = "read"
    /\ UNCHANGED <<jv, param, cell, cols, rowv, obj>>
    /\ UNCHANGED cmdVars

NextValue == BindParam \/ StoreParam \/ ReadBack

ValueSpec == InitValue /\ [][NextValue]_vars

\* ---------------------------------------------------------- row_to_json
\* Most columns of a result row.
MaxCols == 3
ColNames == {"a", "b"}
NativeValues ==
    {NvNull, NvInteger(1), NvReal(1), NvRealInf, NvText(<<"a">>), NvBlob(1), NvBadText}

\* A serde_json::Map: a function from the keys present to their values.
EmptyMap == [n \in {} |-> VNull]
\* The mutant of MapInsert: a key already present keeps its value.
MapInsertIfAbsent(map, k, v) ==
    [n \in DOMAIN map \cup {k} |-> IF n \in DOMAIN map THEN map[n] ELSE v]
\* Map::insert: the value of a key already present is replaced.
MapInsert(map, k, v) ==
    [n \in DOMAIN map \cup {k} |-> IF n = k THEN v ELSE map[n]]

\* row_to_json from column idx on, map holding the columns before idx: the
\* object of the row, or the error of the first column row.get(idx)? refuses.
RECURSIVE RowToJsonFrom(_, _, _, _)
RowToJsonFrom(row, column_names, idx, map) ==
    IF idx > Len(column_names) THEN [ok |-> TRUE, map |-> map]
    ELSE IF row[idx].t = "badtext" THEN [ok |-> FALSE, map |-> EmptyMap]
    ELSE RowToJsonFrom(row, column_names, idx + 1,
                       MapInsert(map, column_names[idx], NativeToJson(row[idx])))

\* row_to_json(row, column_names)
RowToJsonObject(row, column_names) == RowToJsonFrom(row, column_names, 1, EmptyMap)

InitRow ==
    /\ InitCmd
    /\ jv = VNull
    /\ param = Unbound
    /\ cell = NvNull
    /\ back = VNull
    /\ \E n \in 1..MaxCols :
         /\ cols \in [1..n -> ColNames]
         /\ rowv \in [1..n -> NativeValues]
    /\ obj = [ok |-> FALSE, map |-> EmptyMap]
    /\ vpc = "row"

\* The closure of query_map runs row_to_json on the row.
ConvertRow ==
    /\ vpc = "row"
    /\ obj' = RowToJsonObject(rowv, cols)
    /\ vpc' = "converted"
    /\ UNCHANGED <<jv, param, cell, back, cols, rowv>>
    /\ UNCHANGED cmdVars

NextRow == ConvertRow

RowSpec == InitRow /\ [][NextRow]_vars

\* ================================================================ claims
\* Caller p holds the mutex: inside get_connection, or in a command's work.
HoldsLock(p) == pc[p] \in {"gc_check", "gc_init", "run", "tx_begin", "tx_loop"}
\* Caller p is doing a command's database work.
InBody(p) == pc[p] \in {"run", "tx_begin", "tx_loop"}
\* The step is caller p leaving db_transaction because a member failed.
MemberFails(p) == pc[p] = "tx_loop" /\ todo[p] # <<>> /\ pc'[p] = "idle"

\* C1: when a member of a db_transaction call fails, the table after the call
\* is the table as it was before the call, nothing after the failing member
\* runs (the call returns at that step), and the call reports the failure.
C1_FailedTransactionChangesNothing ==
    [][\A p \in Procs :
         MemberFails(p) =>
           /\ eng'.db = before[p]
           /\ ret'[p].tag = "Err" /\ ret'[p].msg # ""]_vars

\* C2: a data-access command that fails returns an envelope with success =
\* false and a non-empty error; it never returns a bare error.
C2_FailuresAreEnvelopes ==
    \A p \in Procs :
        ret[p].cmd \in DbCmds =>
          /\ ret[p].tag # "Err"
          /\ ret[p].tag = "Ok" =>
               (~ret[p].val[1].success =>
                  IsSome(ret[p].val[1].error) /\ ret[p].val[1].error[1] # "")

\* C3: at most one connection is ever stored; once one is stored no caller
\* runs the opening sequence (open and the three pragmas) again, and the stored
\* connection stays the one every later acquire returns.
C3_OneConnection ==
    /\ [](conn <= 1 /\ (conn # 0 => \A p \in Procs : pc[p] # "gc_init"))
    /\ [][conn # 0 => conn' = conn]_vars

\* C3's case: two callers have both acquired the one stored connection.
C3_Witness ==
    /\ conn = 1
    /\ \E p, q \in Procs : p # q /\ pc[p] = "cmd_lock" /\ InBody(q)

\* C4: whoever does database work holds the mutex, so at most one command
\* does; and while a transaction is between two of its members the engine is
\* changed by no step but that transaction's own.
C4_Serialized ==
    /\ [](\A p \in Procs : HoldsLock(p) => lock = p)
    /\ [](\A p, q \in Procs : InBody(p) /\ InBody(q) => p = q)
    /\ [][\A p \in Procs :
            (pc[p] = "tx_loop" /\ eng' # eng) =>
              (todo'[p] # todo[p] \/ pc'[p] # "tx_loop")]_vars

\* C4's case: a transaction has run a member and has more to run while another
\* caller waits for the connection.
C4_Witness ==
    \E p, q \in Procs :
        /\ p # q
        /\ pc[p] = "tx_loop" /\ results[p] # <<>> /\ todo[p] # <<>>
        /\ pc[q] = "cmd_lock"

\* C5: under fair scheduling every command a caller has started completes,
\* whatever the other caller is doing.
C5_BothComplete == \A p \in Procs : (pc[p] # "idle") ~> (pc[p] = "idle")

\* C5's case: one caller waits at get_connection's lock while the other does
\* its database work.
C5_Witness ==
    \E p, q \in Procs : p # q /\ InBody(p) /\ pc[q] = "gc_lock" /\ lock = p

\* The answers under which no step that can fail the acquire fails.
StepsSucceed(e) == e.f \in {"none", "cache"} /\ e.jm \in {"wal", "WAL"}
\* The messages of a failed acquire.
OpenErrors ==
    {"Could not get app data directory", "Could not create app data directory",
     "Could not open database", "Could not set WAL mode",
     "Failed to set WAL mode, got", "Could not enable foreign keys"}

\* C6: an acquire that finds no connection always runs the opening sequence,
\* whatever happened before; the sequence stores a connection exactly when its
\* steps succeed, and a failing one returns the error with nothing stored.
C6_NoFailureCached ==
    [][\A p \in Procs :
         /\ (pc[p] = "gc_check" /\ pc'[p] # "gc_check" /\ conn = 0)
              => pc'[p] = "gc_init"
         /\ (pc[p] = "gc_init" /\ pc'[p] # "gc_init")
              => IF StepsSucceed(openEnv')
                 THEN conn' # 0 /\ pc'[p] = "cmd_lock"
                 ELSE /\ conn' = 0
                      /\ pc'[p] = "idle"
                      /\ ret'[p].tag = "Err" /\ ret'[p].msg \in OpenErrors]_vars

\* C6's case: an acquire has failed and a later one has stored a connection.
C6_Witness ==
    /\ conn # 0
    /\ \E p \in Procs :
         ret[p].cmd \in DbCmds /\ ret[p].tag = "Err" /\ ret[p].msg \in OpenErrors

\* The statements whose text, trimmed and upper-cased, starts with SELECT.
ReadsBySpelling(s) == s.op \in {"sel", "selbad"}
\* The result sequence r has one slot per statement of a, an array for the
\* statements spelled SELECT and null for the others.
SlotsMatch(a, r) ==
    /\ Len(r) = Len(a)
    /\ \A i \in 1..Len(a) :
         IF ReadsBySpelling(a[i]) THEN r[i].t = "array" ELSE r[i] = JNull
\* The step is caller p leaving db_transaction after the loop ran every member.
LoopDone(p) == pc[p] = "tx_loop" /\ todo[p] = <<>> /\ pc'[p] = "idle"

\* C7 as stated: a db_transaction call in which every member succeeds commits
\* and returns one slot per statement in order, an array for SELECT and null
\* otherwise.
C7_AllMembersSucceedReturns ==
    [][\A p \in Procs :
         LoopDone(p) =>
           /\ ret'[p].tag = "Ok"
           /\ ret'[p].val[1].success
           /\ SlotsMatch(args[p], ret'[p].val[1].data[1])]_vars

\* C7 amended: when every member succeeded the call returns either the commit
\* error or, the commit having succeeded, one slot per statement in order, an
\* array for SELECT and null otherwise; it succeeds only if the transaction
\* was still open at the commit, and then nothing is left open or undone.
C7_CommittedReturns ==
    [][\A p \in Procs :
         LoopDone(p) =>
           IF ret'[p].tag = "Ok"
           THEN /\ ret'[p].val[1].success
                /\ SlotsMatch(args[p], ret'[p].val[1].data[1])
                /\ eng.tx /\ ~eng'.tx /\ eng'.db = eng.db
           ELSE ret'[p].msg = "Transaction commit error"]_vars

\* C7's case: a transaction has returned an array slot and a null slot.
C7_Witness ==
    \E p \in Procs :
        /\ ret[p].cmd = "db_transaction" /\ ret[p].tag = "Ok"
        /\ \E i, j \in 1..Len(ret[p].val[1].data[1]) :
             /\ ret[p].val[1].data[1][i].t = "array"
             /\ ret[p].val[1].data[1][j] = JNull

EnvelopeCmds ==
    DbCmds \cup {"auth_hash_password", "auth_verify_password", "auth_generate_token"}

\* C8: every envelope returned has data and no error when success is true, and
\* an error and no data when success is false.
C8_EnvelopeShape ==
    \A p \in Procs :
        (ret[p].tag = "Ok" /\ ret[p].cmd \in EnvelopeCmds) =>
          LET e == ret[p].val[1]
          IN IF e.success THEN IsSome(e.data) /\ ~IsSome(e.error)
             ELSE IsSome(e.error) /\ ~IsSome(e.data)

\* C8's case: db_exec has returned its success envelope (unit data) and an auth
\* command an error envelope.
C8_Witness ==
    \E p, q \in Procs :
        /\ ret[p].tag = "Ok" /\ ret[p].cmd = "db_exec" /\ ret[p].val[1].success
        /\ ret[q].tag = "Ok" /\ ret[q].cmd = "auth_verify_password"
        /\ ~ret[q].val[1].success

\* Caller p's last data-access command has returned.
Completed(p) == ret[p].cmd \in DbCmds /\ ret[p].tag # "none"
\* The errors of an acquire that did not get as far as opening the file.
BeforeOpenErrors ==
    {"Could not get app data directory", "Could not create app data directory",
     "Could not open database"}

\* C9 as stated: once a data-access command has run, the file exists at the
\* path db_get_path reports.
C9_FileAfterAnyCommand ==
    (\E p \in Procs : Completed(p)) => DbGetPathValue \in files

\* C9 amended: the file exists at the path db_get_path reports exactly from the
\* first acquire that opened it, and stays; a data-access command that returned
\* anything but an error of the steps before the open has opened it; and
\* db_exists, when it resolves the directory, returns false before and true
\* after.
C9_FileAfterOpen ==
    /\ [](opened <=> DbGetPathValue \in files)
    /\ [](\A p \in Procs :
            (Completed(p) /\ ~(ret[p].tag = "Err" /\ ret[p].msg \in BeforeOpenErrors))
              => opened)
    /\ [][opened => opened']_vars
    /\ [][\A p \in Procs :
            (pc[p] = "probe" /\ kind[p] = "db_exists" /\ pc'[p] = "idle"
             /\ ret'[p].tag = "Ok")
              => ret'[p].val[1] = opened]_vars

\* C9's case: a data-access command has opened the file and db_exists has
\* answered true.
C9_Witness ==
    /\ opened
    /\ \E p, q \in Procs :
         /\ Completed(q)
         /\ ret[p].cmd = "db_exists" /\ ret[p].tag = "Ok" /\ ret[p].val[1]

\* C10: json_to_params binds an integer Number inside the signed range as
\* that integer and one above it as the upper bound of the range (there is no
\* way to reject: the function returns no error); never as another integer.
C10_NoWrappedInteger ==
    (vpc = "bound" /\ jv.t = "number" /\ jv.n \in {"PosInt", "NegInt"}) =>
      IF I64Min <= jv.v /\ jv.v <= I64Max
      THEN param = PInteger(jv.v)
      ELSE param = PInteger(I64Max)

\* The values C11 is about: Null, Boolean, Integer inside the signed range,
\* Float and String.
IsScalarInRange(j) ==
    \/ j.t \in {"null", "bool", "string"}
    \/ j.t = "number" /\ (j.n = "Float" \/ (I64Min <= j.v /\ j.v <= I64Max))

\* C11 as stated: a Null, Boolean, in-range Integer, Float or String that is
\* bound, stored and read back comes back as the same value.
C11_ScalarRoundTrip ==
    (vpc = "read" /\ IsScalarInRange(jv)) => back = jv

\* C11 amended: a Null, in-range Integer, Float or String comes back as the
\* same value; a Boolean comes back as the Number 1 (true) or 0 (false).
C11_ScalarRoundTripBoolAsNumber ==
    (vpc = "read" /\ IsScalarInRange(jv)) =>
      IF jv.t = "bool"
      THEN back = VNumber("PosInt", IF jv = VBool(TRUE) THEN 1 ELSE 0)
      ELSE back = jv

\* C11's case: true has been stored and read back, as the Number 1.
C11_Witness ==
    vpc = "read" /\ jv = VBool(TRUE) /\ cell = NvInteger(1) /\ back.t = "number"

\* C12: an Array or Object is bound as its serialized text and read back as a
\* String holding that text, never as an Array or Object.
C12_CompositeAsText ==
    (jv.t \in {"array", "object"}) =>
      /\ vpc \in {"bound", "stored", "read"} => param = PText(ToJsonString(jv))
      /\ vpc = "read" => back = VString(ToJsonString(jv))
      /\ (vpc = "read" /\ jv = VArray(<<0, 1>>))
           => back = VString(<<"[", "0", ",", "1", "]">>)
      /\ (vpc = "read" /\ jv = VObject(<<1>>))
           => back = VString(<<"{", "\"", "k", "\"", ":", "1", "}">>)

\* C12's case: the array [0,1] has been stored and read back as a String.
C12_Witness ==
    vpc = "read" /\ jv = VArray(<<0, 1>>) /\ cell.t = "text" /\ back.t = "string"

\* The highest index at which column name n stands.
LastIndexOf(n) ==
    CHOOSE i \in 1..Len(cols) : cols[i] = n /\ \A j \in (i + 1)..Len(cols) : cols[j] # n

\* C17: the object row_to_json produces has the distinct column names as its
\* keys, and under each name the conversion of the native value of the last
\* column of that name.
C17_LastColumnWins ==
    (vpc = "converted" /\ obj.ok) =>
      /\ DOMAIN obj.map = {cols[i] : i \in 1..Len(cols)}
      /\ \A n \in DOMAIN obj.map : obj.map[n] = NativeToJson(rowv[LastIndexOf(n)])
      /\ \A i \in 1..Len(cols) :
           (rowv[i] = NvBlob(1) /\ i = LastIndexOf(cols[i]))
             => obj.map[cols[i]].s = <<"[", "B", "L", "O", "B", ":", "1", " ",
                                        "b", "y", "t", "e", "s", "]">>

\* C17's case: a row whose first and last columns share a name and differ in
\* value, with another column between them, has been converted.
C17_Witness ==
    /\ vpc = "converted" /\ obj.ok
    /\ Len(cols) = 3 /\ cols[1] = cols[3] /\ cols[2] # cols[1]
    /\ NativeToJson(rowv[1]) # NativeToJson(rowv[3])

\* The rows of the table T as db_query and a SELECT member return them.
RowsOf(T) == [i \in 1..Cardinality(T) |-> [id |-> SortedSeq(T)[i]]]
\* The table a member of p's transaction must see: the table as the call found
\* it and the rows the members before it inserted.
SeenByNextMember(p) ==
    before[p] \cup {args[p][j].key : j \in {i \in 1..Len(results[p]) : args[p][i].op = "ins"}}

\* C13: db_transaction runs its members in submission order, one at a time and
\* each only after the ones before it succeeded; a SELECT member returns the
\* table with the rows the earlier members of the same call inserted, so
\* [INSERT, SELECT] returns [null, [the inserted row]].
C13_MembersInOrderSeeEarlier ==
    /\ [](\A p \in Procs :
            pc[p] = "tx_loop" =>
              todo[p] = SubSeq(args[p], Len(results[p]) + 1, Len(args[p])))
    /\ [][\A p \in Procs :
            (pc[p] = "tx_loop" /\ pc'[p] = "tx_loop" /\ todo'[p] # todo[p]) =>
              /\ todo'[p] = Tail(todo[p])
              /\ Len(results'[p]) = Len(results[p]) + 1
              /\ SubSeq(results'[p], 1, Len(results[p])) = results[p]
              /\ Head(todo[p]).op = "sel" =>
                   results'[p][Len(results'[p])] = JArray(RowsOf(SeenByNextMember(p)))]_vars
    /\ [][\A p \in Procs :
            (LoopDone(p) /\ ret'[p].tag = "Ok") =>
              /\ ret'[p].val[1].data[1] = results[p]
              /\ (args[p] = <<Ins(1), Plain("sel")>> /\ before[p] = {}) =>
                   ret'[p].val[1].data[1] = <<JNull, JArray(<<[id |-> 1]>>)>>]_vars

\* C13's case: [INSERT, SELECT] on the empty table has returned
\* [null, [the inserted row]].
C13_Witness ==
    \E p \in Procs :
        /\ ret[p].cmd = "db_transaction" /\ ret[p].tag = "Ok"
        /\ ret[p].val[1].data[1] = <<JNull, JArray(<<[id |-> 1]>>)>>

\* C14: the opening sequence stores a connection and lets the command go on
\* exactly when resolution, directory creation, open, the WAL pragma's query
\* and the foreign-key pragma succeed and the engine reports "wal" in any
\* letter case; a failing cache-size pragma changes nothing of that, while
\* another reported mode or a failing foreign-key pragma returns its error
\* with nothing stored.
C14_ReadyIffCriticalStepsSucceed ==
    [][\A p \in Procs :
         (pc[p] = "gc_init" /\ pc'[p] # "gc_init") =>
           LET e == openEnv'
               ready == conn' # 0 /\ pc'[p] = "cmd_lock" /\ ret'[p].tag # "Err"
           IN /\ ready <=> (/\ e.f \notin {"resolve", "mkdir", "open", "walq", "fk"}
                            /\ e.jm \in {"wal", "WAL"})
              /\ ~ready => (conn' = 0 /\ pc'[p] = "idle" /\ ret'[p].tag = "Err")
              /\ e.f = "cache" => ready
              /\ e.jm = "delete" => ~ready /\ ret'[p].msg = "Failed to set WAL mode, got"
              /\ e.f = "fk" => ~ready /\ ret'[p].msg = "Could not enable foreign keys"]_vars

\* C14's case: an opening sequence in which the engine reported "WAL" and the
\* cache-size pragma failed has stored the connection.
C14_Witness ==
    /\ conn = 1
    /\ openEnv.f = "cache" /\ openEnv.jm = "WAL"
    /\ \E p \in Procs : openEnv.by = p /\ pc[p] = "cmd_lock"

\* The step is caller p's db_execute returning.
ExecuteReturns(p) == pc[p] = "run" /\ kind[p] = "db_execute" /\ pc'[p] = "idle"
\* The rows the statement s inserts, updates or deletes when it succeeds.
RowsAffected(s) == IF s.op = "ins" THEN 1 ELSE 0

\* C15 as stated: a successful db_execute returns the number of rows its
\* statement affected and the connection's last-insert rowid as it stands right
\* after the statement, which for an INSERT is the identity of the row this
\* call inserted.
C15_ChangesAndRowidOfThisStatement ==
    [][\A p \in Procs :
         (ExecuteReturns(p) /\ ret'[p].tag = "Ok") =>
           LET d == ret'[p].val[1].data[1]
               s == args[p][1]
           IN /\ d.changes = RowsAffected(s)
              /\ d.lastInsertRowid = eng'.rowid
              /\ s.op = "ins" =>
                   /\ d.lastInsertRowid = s.key
                   /\ s.key \in eng'.db /\ s.key \notin eng.db]_vars

\* C15 amended: a successful db_execute returns the connection's change count
\* and last-insert rowid as they stand right after the statement; for an INSERT
\* these are the rows it inserted and the identity of the row this call
\* inserted, and a statement that inserts, updates and deletes nothing returns
\* the count and the rowid the connection had before it.
C15_ChangesAndRowidOfConnection ==
    [][\A p \in Procs :
         (ExecuteReturns(p) /\ ret'[p].tag = "Ok") =>
           LET d == ret'[p].val[1].data[1]
               s == args[p][1]
           IN /\ d.changes = eng'.chg
              /\ d.lastInsertRowid = eng'.rowid
              /\ IF s.op = "ins"
                 THEN /\ d.changes = 1
                      /\ d.lastInsertRowid = s.key
                      /\ s.key \in eng'.db /\ s.key \notin eng.db
                 ELSE /\ d.changes = eng.chg
                      /\ d.lastInsertRowid = eng.rowid]_vars

\* C15's case: the two callers have each inserted a row through db_execute and
\* each has been returned the identity of its own row.
C15_Witness ==
    \E p, q \in Procs :
        /\ ret[p].cmd = "db_execute" /\ ret[p].tag = "Ok"
        /\ ret[q].cmd = "db_execute" /\ ret[q].tag = "Ok"
        /\ ret[p].val[1].data[1].lastInsertRowid = 2
        /\ ret[q].val[1].data[1].lastInsertRowid = 1
        /\ ret[p].val[1].data[1].changes = 1
        /\ eng.db = {1, 2} /\ eng.rowid = 1

\* The step is caller p's db_query returning.
QueryReturns(p) == pc[p] = "run" /\ kind[p] = "db_query" /\ pc'[p] = "idle"

\* C16: db_query returns either every row of the result in order or an error
\* that carries no rows: a statement that cannot be prepared, parameters that
\* cannot be bound, and a row that cannot be decoded even after rows before it
\* were, give the error alone.
C16_AllRowsOrError ==
    [][\A p \in Procs :
         QueryReturns(p) =>
           LET s == args[p][1]
           IN /\ ret'[p].tag \in {"Ok", "Err"}
              /\ ret'[p].tag = "Ok" =>
                   /\ s.op \in {"sel", "cte"}
                   /\ ret'[p].val[1].success
                   /\ ret'[p].val[1].data[1] = RowsOf(eng.db)
              /\ ret'[p].tag = "Err" =>
                   /\ ret'[p].val = None
                   /\ s.op \in {"bad", "unbound", "selbad"}
              /\ s.op = "bad" => ret'[p].msg = "SQL prepare error"
              /\ s.op = "unbound" => ret'[p].msg = "SQL query error"
              /\ s.op = "selbad" => ret'[p].msg = "Row parsing error"]_vars

\* C16's case: one caller alone has put a row in the table and then run a
\* query whose last row cannot be decoded; it got the error.
C16_Witness ==
    \E p, q \in Procs :
        /\ p # q
        /\ pc[q] = "idle" /\ ret[q].tag = "none"
        /\ eng.db # {}
        /\ ret[p].cmd = "db_query" /\ ret[p].tag = "Err"
        /\ ret[p].msg = "Row parsing error" /\ ret[p].val = None

\* C18: while db_transaction runs its members and when it issues its commit,
\* the transaction it began is still open on the connection, holding the table
\* of before the call as what a rollback restores.
C18_TransactionStaysOpen ==
    \A p \in Procs :
        pc[p] = "tx_loop" => (eng.tx /\ eng.snap = before[p])

\* C19: whenever nobody holds the connection's lock, no transaction is open on
\* the connection.
C19_AutocommitBetweenCommands ==
    lock = "free" => ~eng.tx

\* C20: a stored connection is never taken away, a command whose acquire
\* returned finds a connection when it takes the lock, and no command returns
\* "Database connection not initialized".
C20_ConnectionStaysStored ==
    /\ [][conn # 0 => conn' # 0]_vars
    /\ [](\A p \in Procs : pc[p] \in {"cmd_lock", "run", "tx_begin", "tx_loop"} => conn # 0)
    /\ [](\A p \in Procs : ret[p].msg # "Database connection not initialized")

\* C20's case: one command has returned its result from the stored connection
\* and another caller's command has found the connection under its own lock.
C20_Witness ==
    /\ conn # 0
    /\ \E p, q \in Procs :
         /\ p # q
         /\ pc[p] = "run"
         /\ ret[q].cmd \in DbCmds /\ ret[q].tag = "Ok"
====
